---- MODULE Spec2Model ----
(***************************************************************************)
(* DependencyInjection.hpp: a ServiceCollection (builder) accumulates      *)
(* ServiceDescriptors, BuildServiceProvider() turns them into a            *)
(* ServiceProvider whose GetService(type) invokes the factory of the first *)
(* descriptor in the bucket of that type.                                  *)
(***************************************************************************)
EXTENDS Integers, Sequences, FiniteSets, TLC

(* ----------------------------- bounds ---------------------------------- *)
\* longest descriptor list a ServiceCollection grows to
MaxDescriptors == 2
\* number of GetService calls the client program makes
MaxResolves == 2
\* deepest nesting of in-progress calls (typed accessor, GetService, factories)
MaxDepth == 3

(* ------------------------------ types ---------------------------------- *)
\* std::type_info identities: A and B are requested and registered, X is
\* only ever an implementation type
TypeIds == {"A", "B", "X"}
ServiceTypes == {"A", "B"}
\* the (TService, TImplementation) instantiations of the factory-less
\* AddSingleton<>() / AddTransient<>() the client program uses
DefaultPairs == {<<"A", "A">>, <<"B", "B">>, <<"A", "X">>}
\* the caller-supplied factories: each counts its runs and constructs a value
\* of type Produces[f]; factory 2 first resolves Dep[2] on the provider it is
\* handed, and so does factory 3, which only the client programs of SpecGraph
\* register
CustomFactories == {1, 2}
GraphFactories == CustomFactories \cup {3}
Produces == [f \in GraphFactories |-> "A"]
Dep == [f \in GraphFactories |-> CASE f = 2 -> "B" [] f = 3 -> "A" [] OTHER -> "none"]

Singleton == "Singleton"
Transient == "Transient"
ServiceLifetime == {Singleton, Transient}

\* the worker threads of a multi-threaded client program
Threads == {"t1", "t2"}

\* an object: id is its identity, ctype its dynamic type, src the identity of
\* the object it was copy-constructed from (its own id when constructed afresh)
EmptyAny == [id |-> 0, ctype |-> "void", src |-> 0]
Object(i, t) == [id |-> i, ctype |-> t, src |-> i]
CopyOf(o, i) == [id |-> i, ctype |-> o.ctype, src |-> o.src]

\* ServiceFactory values
DefaultSingletonFactory(svc, impl) ==
    [kind |-> "defaultSingleton", svc |-> svc, impl |-> impl, dep |-> "none", fid |-> 0]
DefaultTransientFactory(svc, impl) ==
    [kind |-> "defaultTransient", svc |-> svc, impl |-> impl, dep |-> "none", fid |-> 0]
CustomFactory(f) ==
    [kind |-> "custom", svc |-> "none", impl |-> Produces[f], dep |-> Dep[f], fid |-> f]
NoFactory ==
    [kind |-> "none", svc |-> "none", impl |-> "void", dep |-> "none", fid |-> 0]

\* ServiceDescriptor; reg is the position the descriptor was pushed at, kept
\* to tell apart two descriptors with equal fields
ServiceDescriptor(typeInfo, factory, lifetime, reg) ==
    [typeInfo |-> typeInfo, factory |-> factory, lifetime |-> lifetime, reg |-> reg]
NoDescriptor == ServiceDescriptor("void", NoFactory, Singleton, 0)

\* a worker thread: pc is its position in its GetService call, type and
\* descriptor what it resolves, result the std::any it got, first whether the
\* static of the lambda was still unconstructed when the call began, built
\* whether this thread constructed the static
IdleThread ==
    [pc |-> "idle", type |-> "none", descriptor |-> NoDescriptor,
     result |-> EmptyAny, first |-> FALSE, built |-> FALSE]

VARIABLES
    descriptors,   \* ServiceCollection::_descriptors
    chain,         \* the reference the last builder call returned
    providers,     \* the ServiceProvider the client program holds (none before
                   \* the first build), as its _services map
    snapshot,      \* the vector the held ServiceProvider was constructed from
    statics,       \* the function-local static of each default Singleton lambda
    counter,       \* the counter of each caller-supplied counting factory
    invoked,       \* per registration: how often the held provider called its
                   \* factory
    nextId,        \* next fresh object identity
    stack,         \* the call stack: frames of GetService<T>() and GetService()
    log,           \* the calls on the held provider that have returned or thrown
    calls,         \* number of GetService calls the client program has made
    threads        \* the worker threads of a multi-threaded client program:
                   \* where each is in its GetService call, and its result

vars == <<descriptors, chain, providers, snapshot, statics, counter, invoked, nextId,
          stack, log, calls, threads>>

builderVars == <<descriptors, chain>>
resolveVars == <<statics, counter, invoked, nextId, stack, log, calls, threads>>

Init ==
    /\ descriptors = <<>>
    /\ chain = "none"
    /\ providers = <<>>
    /\ snapshot = <<>>
    /\ statics = [p \in DefaultPairs |-> EmptyAny]
    /\ counter = [f \in GraphFactories |-> 0]
    /\ invoked = [r \in 1..MaxDescriptors |-> 0]
    /\ nextId = 1
    /\ stack = <<>>
    /\ log = <<>>
    /\ calls = 0
    /\ threads = [th \in Threads |-> IdleThread]

(* -------------------- ServiceProvider construction --------------------- *)
\* a map that keeps one descriptor per type: the insertion overwrites the
\* bucket
InsertOverwriting(services, descriptor) ==
    [t \in DOMAIN services \cup {descriptor.typeInfo} |->
        IF t = descriptor.typeInfo THEN <<descriptor>> ELSE services[t]]

\* one iteration of the constructor's loop
InsertDescriptor(services, descriptor) ==
    LET typeInfo == descriptor.typeInfo
        serviceExists == typeInfo \in DOMAIN services
    IN  IF serviceExists
        THEN [services EXCEPT ![typeInfo] = Append(@, descriptor)]
        ELSE [t \in DOMAIN services \cup {typeInfo} |->
                 IF t = typeInfo THEN <<descriptor>> ELSE services[t]]

\* for (const auto& descriptor : reverse_view(descriptors)): the loop has
\* i descriptors still to visit, descs[i] is visited next
RECURSIVE ConstructFrom(_, _, _)
ConstructFrom(descs, i, services) ==
    IF i = 0 THEN services
    ELSE ConstructFrom(descs, i - 1, InsertDescriptor(services, descs[i]))

\* explicit ServiceProvider(const std::vector<ServiceDescriptor>&)
NewServiceProvider(descs) ==
    ConstructFrom(descs, Len(descs), [t \in {} |-> <<>>])

(* ------------------------- ServiceCollection --------------------------- *)
\* the client program calls the builder only between GetService calls
BuilderIdle == stack = <<>> /\ Len(descriptors) < MaxDescriptors

\* a provider that keeps a reference to the builder's vector and so follows
\* every later Add
AddShared(descriptor) ==
    /\ descriptors' = Append(descriptors, descriptor)
    /\ chain' = "this"
    /\ providers' = IF providers = <<>> THEN <<>>
                    ELSE <<NewServiceProvider(Append(descriptors, descriptor))>>
    /\ UNCHANGED <<snapshot, resolveVars>>

\* a builder that keeps one registration per type: a registration of a
\* registered type takes the place of the old one
AddReplacing(descriptor) ==
    /\ descriptors' =
          IF \E i \in 1..Len(descriptors) : descriptors[i].typeInfo = descriptor.typeInfo
          THEN [i \in 1..Len(descriptors) |->
                   IF descriptors[i].typeInfo = descriptor.typeInfo
                   THEN [descriptor EXCEPT !.reg = i] ELSE descriptors[i]]
          ELSE Append(descriptors, descriptor)
    /\ chain' = "this"
    /\ UNCHANGED <<providers, snapshot, resolveVars>>

\* _descriptors.push_back(descriptor); return *this;
Add(descriptor) ==
    /\ descriptors' = Append(descriptors, descriptor)
    /\ chain' = "this"
    /\ UNCHANGED <<providers, snapshot, resolveVars>>

\* Add called directly with a descriptor carrying a caller-supplied factory
AddDescriptor ==
    /\ BuilderIdle
    /\ \E t \in ServiceTypes, f \in CustomFactories, l \in ServiceLifetime :
          Add(ServiceDescriptor(t, CustomFactory(f), l, Len(descriptors) + 1))

\* AddSingleton<TService, TImplementation>()
AddSingletonDefault ==
    /\ BuilderIdle
    /\ \E p \in DefaultPairs :
          Add(ServiceDescriptor(p[1], DefaultSingletonFactory(p[1], p[2]),
                                Singleton, Len(descriptors) + 1))

\* AddSingleton<TService, TImplementation>(factory)
AddSingleton ==
    /\ BuilderIdle
    /\ \E t \in ServiceTypes, f \in CustomFactories :
          Add(ServiceDescriptor(t, CustomFactory(f), Singleton, Len(descriptors) + 1))

\* AddTransient<TService, TImplementation>()
AddTransientDefault ==
    /\ BuilderIdle
    /\ \E p \in DefaultPairs :
          Add(ServiceDescriptor(p[1], DefaultTransientFactory(p[1], p[2]),
                                Transient, Len(descriptors) + 1))

\* AddTransient<TService, TImplementation>(factory)
AddTransient ==
    /\ BuilderIdle
    /\ \E t \in ServiceTypes, f \in CustomFactories :
          Add(ServiceDescriptor(t, CustomFactory(f), Transient, Len(descriptors) + 1))

\* AddTransient<TService, TImplementation>(factory) of a client program that
\* registers factories with dependencies on either type, before it builds
AddDependent ==
    /\ BuilderIdle
    /\ providers = <<>>
    /\ \E t \in ServiceTypes, f \in GraphFactories :
          Add(ServiceDescriptor(t, CustomFactory(f), Transient, Len(descriptors) + 1))

(* -------------------------- ServiceProvider ---------------------------- *)
\* a provider that owns the Singleton instances: each build starts with none
BuildServiceProviderOwningCache ==
    /\ stack = <<>>
    /\ providers' = <<NewServiceProvider(descriptors)>>
    /\ snapshot' = descriptors
    /\ log' = <<>>
    /\ invoked' = [r \in 1..MaxDescriptors |-> 0]
    /\ statics' = [p \in DefaultPairs |-> EmptyAny]
    /\ UNCHANGED <<builderVars, threads, counter, nextId, stack, calls>>

\* provider = collection.BuildServiceProvider(), which is
\* return ServiceProvider(_descriptors); the client program keeps the new
\* provider in place of the one it held
BuildServiceProvider ==
    /\ stack = <<>>
    /\ providers' = <<NewServiceProvider(descriptors)>>
    /\ snapshot' = descriptors
    /\ log' = <<>>
    /\ invoked' = [r \in 1..MaxDescriptors |-> 0]
    /\ UNCHANGED <<builderVars, threads, statics, counter, nextId, stack, calls>>

\* the one BuildServiceProvider() call of a client program that registers
\* everything first
BuildOnce ==
    /\ providers = <<>>
    /\ BuildServiceProvider

\* a frame of the call stack: kind "typed" is GetService<T>(), kind "erased"
\* is GetService(type) running the factory of `descriptor`
Frame(kind, type, pc, descriptor) ==
    [kind |-> kind, type |-> type, pc |-> pc,
     descriptor |-> descriptor, service |-> EmptyAny]

Top == stack[Len(stack)]
Running(kind, pc) == stack # <<>> /\ Top.kind = kind /\ Top.pc = pc

\* a finished call of `callers`' innermost frame (of the client program when
\* there is none), as its caller observes it: caller is the type whose
\* factory made the call ("none" when no factory did), reg the registration
\* whose factory ran (0 when none did)
LogEntry(kind, type, callers, outcome, value, reg) ==
    [kind |-> kind, type |-> type, depth |-> Len(callers) + 1,
     caller |-> IF callers # <<>> /\ callers[Len(callers)].kind = "erased"
                THEN callers[Len(callers)].type ELSE "none",
     outcome |-> outcome, value |-> value, reg |-> reg]

\* a return that never reaches a factory waiting for its dependency
ReturnDropped(callers, value) ==
    IF callers = <<>> THEN <<>>
    ELSE LET caller == callers[Len(callers)]
         IN  IF caller.kind = "typed"
             THEN [callers EXCEPT ![Len(callers)] =
                      [caller EXCEPT !.service = value, !.pc = "cast"]]
             ELSE callers

\* value is handed to the innermost of `callers`: GetService<T>() holds it in
\* `service` and goes on to its cast, a factory to its construction
ReturnTo(callers, value) ==
    IF callers = <<>> THEN <<>>
    ELSE LET caller == callers[Len(callers)]
         IN  [callers EXCEPT ![Len(callers)] =
                 [caller EXCEPT !.service = value,
                                !.pc = IF caller.kind = "typed" THEN "cast"
                                       ELSE "construct"]]

\* a lookup that throws where the code returns the empty any
ThrowOutcome == "raise"

\* return {}; the empty std::any is a normal return value
NotFoundOutcome == "absent"

\* the oldest registration of the bucket instead of the newest
LastDescriptor(descriptorList) == descriptorList[Len(descriptorList)]

\* const auto& descriptor = descriptorList[0];
FirstDescriptor(descriptorList) == descriptorList[1]

\* a lookup that notices the requested type is already being resolved and
\* reports it instead of calling the factory again
GetServiceDetecting(callers, type) ==
    LET services == providers[1]
        notFound == type \notin DOMAIN services
        inProgress == \E k \in DOMAIN callers : /\ callers[k].kind = "erased"
                                                 /\ callers[k].type = type
    IN  IF notFound \/ inProgress
        THEN /\ stack' = ReturnTo(callers, EmptyAny)
             /\ log' = Append(log, LogEntry("erased", type, callers,
                                            IF notFound THEN NotFoundOutcome
                                            ELSE "cyclic dependency", EmptyAny, 0))
             /\ UNCHANGED invoked
        ELSE LET descriptorList == services[type]
                 descriptor == FirstDescriptor(descriptorList)
             IN  /\ stack' = Append(callers,
                                    Frame("erased", type, "factory", descriptor))
                 /\ invoked' = [invoked EXCEPT ![descriptor.reg] = @ + 1]
                 /\ UNCHANGED log

\* std::any GetService(const std::type_info& type) of the held provider,
\* called from the innermost of `callers`, up to the call of the factory
GetService(callers, type) ==
    LET services == providers[1]
        notFound == type \notin DOMAIN services
    IN  IF notFound
        THEN /\ stack' = ReturnTo(callers, EmptyAny)
             /\ log' = Append(log, LogEntry("erased", type, callers,
                                            NotFoundOutcome, EmptyAny, 0))
             /\ UNCHANGED invoked
        ELSE LET descriptorList == services[type]
                 descriptor == FirstDescriptor(descriptorList)
             IN  /\ stack' = Append(callers,
                                    Frame("erased", type, "factory", descriptor))
                 /\ invoked' = [invoked EXCEPT ![descriptor.reg] = @ + 1]
                 /\ UNCHANGED log

\* a provider that keeps the first instance it handed out for a type and
\* hands it out again
ReturnCached(value) ==
    LET callers == SubSeq(stack, 1, Len(stack) - 1)
        prior == {i \in DOMAIN log : /\ log[i].kind = "erased"
                                     /\ log[i].type = Top.type
                                     /\ log[i].outcome = "value"}
        kept == IF prior = {} THEN value
                ELSE log[CHOOSE i \in prior : \A j \in prior : i <= j].value
    IN  /\ stack' = ReturnTo(callers, kept)
        /\ log' = Append(log, LogEntry("erased", Top.type, callers, "value",
                                       kept, Top.descriptor.reg))

\* the factory of the top frame returns value: return service;
Return(value) ==
    LET callers == SubSeq(stack, 1, Len(stack) - 1)
    IN  /\ stack' = ReturnTo(callers, value)
        /\ log' = Append(log, LogEntry("erased", Top.type, callers, "value",
                                       value, Top.descriptor.reg))

\* a lookup through the subscript of the map, which creates an empty bucket
\* for a type that has none
CallGetServiceInserting ==
    /\ stack = <<>>
    /\ providers # <<>>
    /\ calls < MaxResolves
    /\ \E t \in ServiceTypes :
          /\ GetService(<<>>, t)
          /\ providers' =
                <<[k \in DOMAIN providers[1] \cup {t} |->
                     IF k \in DOMAIN providers[1] THEN providers[1][k] ELSE <<>>]>>
    /\ calls' = calls + 1
    /\ UNCHANGED <<builderVars, threads, snapshot, statics, counter, nextId>>

\* the client program calls provider.GetService(typeid(t))
CallGetService ==
    /\ stack = <<>>
    /\ providers # <<>>
    /\ calls < MaxResolves
    /\ \E t \in ServiceTypes : GetService(<<>>, t)
    /\ calls' = calls + 1
    /\ UNCHANGED <<builderVars, threads, providers, snapshot, statics, counter, nextId>>

\* the client program calls provider.GetService<t>():
\* auto service = GetService(typeid(T));
CallGetServiceT ==
    /\ stack = <<>>
    /\ providers # <<>>
    /\ calls < MaxResolves
    /\ 2 <= MaxDepth
    /\ \E t \in ServiceTypes :
          GetService(<<Frame("typed", t, "wait", NoDescriptor)>>, t)
    /\ calls' = calls + 1
    /\ UNCHANGED <<builderVars, threads, providers, snapshot, statics, counter, nextId>>

\* the lambda without `static`: every run constructs the implementation anew
DefaultSingletonLambdaFresh ==
    /\ Running("erased", "factory")
    /\ Top.descriptor.factory.kind = "defaultSingleton"
    /\ LET f == Top.descriptor.factory
           key == <<f.svc, f.impl>>
       IN  /\ statics' = [statics EXCEPT ![key] = Object(nextId, f.impl)]
           /\ Return(CopyOf(Object(nextId, f.impl), nextId + 1))
           /\ nextId' = nextId + 2
    /\ UNCHANGED <<builderVars, threads, providers, snapshot, counter, invoked, calls>>

\* the lambda of AddSingleton<TService, TImplementation>():
\* static const auto& service = TImplementation(); return service;
\* the static is initialised on the first run, and every run returns a copy
DefaultSingletonLambda ==
    /\ Running("erased", "factory")
    /\ Top.descriptor.factory.kind = "defaultSingleton"
    /\ LET f == Top.descriptor.factory
           key == <<f.svc, f.impl>>
       IN  IF statics[key] = EmptyAny
           THEN /\ statics' = [statics EXCEPT ![key] = Object(nextId, f.impl)]
                /\ Return(CopyOf(Object(nextId, f.impl), nextId + 1))
                /\ nextId' = nextId + 2
           ELSE /\ Return(CopyOf(statics[key], nextId))
                /\ nextId' = nextId + 1
                /\ UNCHANGED statics
    /\ UNCHANGED <<builderVars, threads, providers, snapshot, counter, invoked, calls>>

\* the lambda of AddTransient<TService, TImplementation>():
\* TImplementation service; return service;
DefaultTransientLambda ==
    /\ Running("erased", "factory")
    /\ Top.descriptor.factory.kind = "defaultTransient"
    /\ Return(Object(nextId, Top.descriptor.factory.impl))
    /\ nextId' = nextId + 1
    /\ UNCHANGED <<builderVars, threads, providers, snapshot, statics, counter, invoked, calls>>

\* a caller-supplied factory with a dependency calls GetService(dep) on the
\* IServiceProvider& it was handed, which is *this of the running GetService
CustomFactoryResolve ==
    /\ Running("erased", "factory")
    /\ Top.descriptor.factory.kind = "custom"
    /\ Top.descriptor.factory.dep # "none"
    /\ Len(stack) < MaxDepth
    /\ GetService([stack EXCEPT ![Len(stack)] = [Top EXCEPT !.pc = "wait"]],
                  Top.descriptor.factory.dep)
    /\ UNCHANGED <<builderVars, threads, providers, snapshot, statics, counter, nextId, calls>>

\* a caller-supplied counting factory constructs its value and returns it
CustomFactoryConstruct ==
    /\ stack # <<>>
    /\ Top.kind = "erased"
    /\ Top.descriptor.factory.kind = "custom"
    /\ \/ Top.pc = "factory" /\ Top.descriptor.factory.dep = "none"
       \/ Top.pc = "construct"
    /\ counter' = [counter EXCEPT ![Top.descriptor.factory.fid] = @ + 1]
    /\ Return(Object(nextId, Top.descriptor.factory.impl))
    /\ nextId' = nextId + 1
    /\ UNCHANGED <<builderVars, threads, providers, snapshot, statics, invoked, calls>>

\* a cast that only looks whether the any holds a value
UncheckedCast(service, type) == service.ctype # "void"

\* any_cast<T> succeeds when the any holds a T: an empty any, or one holding
\* another type, holds no T
AnyCastHolds(service, type) == service.ctype = type

\* return std::any_cast<T>(service); a copy of the held value, or
\* std::bad_any_cast thrown to the client program
AnyCast ==
    /\ Running("typed", "cast")
    /\ LET held == AnyCastHolds(Top.service, Top.type)
           result == IF held THEN CopyOf(Top.service, nextId) ELSE EmptyAny
           callers == SubSeq(stack, 1, Len(stack) - 1)
       IN  /\ log' = Append(log, LogEntry("typed", Top.type, callers,
                                          IF held THEN "value" ELSE "raise",
                                          result, 0))
           /\ nextId' = IF held THEN nextId + 1 ELSE nextId
           /\ stack' = callers
    /\ UNCHANGED <<builderVars, threads, providers, snapshot, statics, counter, invoked, calls>>

(* ---------------------------- worker threads --------------------------- *)
\* what a step of a worker thread leaves alone besides statics and nextId
mainVars == <<builderVars, providers, snapshot, counter, invoked, stack, log, calls>>

\* the static of the lambda thread th is running
StaticOf(th) ==
    <<threads[th].descriptor.factory.svc, threads[th].descriptor.factory.impl>>

\* registrations of a multi-threaded client program: the factory-less ones,
\* made before it builds
AddSingletonShared ==
    /\ providers = <<>>
    /\ AddSingletonDefault
AddTransientShared ==
    /\ providers = <<>>
    /\ AddTransientDefault

\* a worker thread calls provider.GetService(typeid(t)) on the provider all
\* threads share: find(), the copy of the bucket and of the factory only read
\* the provider, so they are one step up to the call of the factory
ThreadGetService(th) ==
    /\ threads[th].pc = "idle"
    /\ providers # <<>>
    /\ \E t \in ServiceTypes :
          LET services == providers[1]
          IN  IF t \notin DOMAIN services
              THEN threads' = [threads EXCEPT ![th] =
                                  [@ EXCEPT !.pc = "done", !.type = t]]
              ELSE LET descriptor == FirstDescriptor(services[t])
                       f == descriptor.factory
                   IN  threads' = [threads EXCEPT ![th] =
                          [@ EXCEPT !.pc = "factory", !.type = t,
                                    !.descriptor = descriptor,
                                    !.first = /\ f.kind = "defaultSingleton"
                                              /\ statics[<<f.svc, f.impl>>] = EmptyAny]]
    /\ UNCHANGED <<mainVars, statics, nextId>>

\* static const auto& service = ...: control reaches the declaration of the
\* static. An initialised static is passed by; an uninitialised one is
\* initialised by the first thread to arrive, and a thread that arrives while
\* another is initialising it waits for the initialisation to complete
ThreadEnterStatic(th) ==
    /\ threads[th].pc = "factory"
    /\ threads[th].descriptor.factory.kind = "defaultSingleton"
    /\ IF statics[StaticOf(th)] # EmptyAny
       THEN threads' = [threads EXCEPT ![th].pc = "copy"]
       ELSE /\ \A other \in Threads \ {th} :
                  ~(threads[other].pc = "init" /\ StaticOf(other) = StaticOf(th))
            /\ threads' = [threads EXCEPT ![th].pc = "init"]
    /\ UNCHANGED <<mainVars, statics, nextId>>

\* ... = TImplementation(); by the thread that initialises the static
ThreadInitStatic(th) ==
    /\ threads[th].pc = "init"
    /\ statics' = [statics EXCEPT ![StaticOf(th)] =
                      Object(nextId, threads[th].descriptor.factory.impl)]
    /\ nextId' = nextId + 1
    /\ threads' = [threads EXCEPT ![th] = [@ EXCEPT !.pc = "copy", !.built = TRUE]]
    /\ UNCHANGED mainVars

\* a lambda that hands every caller the static itself
ThreadReturnShared(th) ==
    /\ threads[th].pc = "copy"
    /\ threads' = [threads EXCEPT ![th] =
                      [@ EXCEPT !.pc = "done", !.result = statics[StaticOf(th)]]]
    /\ UNCHANGED <<mainVars, statics, nextId>>

\* return service; the lambda returns by value, a copy of the static
ThreadReturnCopy(th) ==
    /\ threads[th].pc = "copy"
    /\ threads' = [threads EXCEPT ![th] =
                      [@ EXCEPT !.pc = "done",
                                !.result = CopyOf(statics[StaticOf(th)], nextId)]]
    /\ nextId' = nextId + 1
    /\ UNCHANGED <<mainVars, statics>>

\* the lambda of AddTransient<>() run by a worker thread
ThreadTransient(th) ==
    /\ threads[th].pc = "factory"
    /\ threads[th].descriptor.factory.kind = "defaultTransient"
    /\ threads' = [threads EXCEPT ![th] =
                      [@ EXCEPT !.pc = "done",
                                !.result = Object(nextId,
                                                  threads[th].descriptor.factory.impl)]]
    /\ nextId' = nextId + 1
    /\ UNCHANGED <<mainVars, statics>>

(* ------------------------------ claims --------------------------------- *)
\* the positions of the registrations of type t in the list descs
Registrations(descs, t) == {i \in 1..Len(descs) : descs[i].typeInfo = t}
Registered(descs, t) == Registrations(descs, t) # {}
\* the registration of t added last
LastRegistration(descs, t) ==
    CHOOSE i \in Registrations(descs, t) : \A j \in Registrations(descs, t) : j <= i
\* registrations of the held provider whose type was registered again later
Shadowed == {r \in 1..Len(snapshot) :
                r # LastRegistration(snapshot, snapshot[r].typeInfo)}
ErasedCalls == {i \in DOMAIN log : log[i].kind = "erased"}
TypedCalls == {i \in DOMAIN log : log[i].kind = "typed"}
ErasedFrames == {k \in DOMAIN stack : stack[k].kind = "erased"}

\* C1: override rule. Every GetService(type) of a provider runs the factory
\* of the registration of that type added last before the build and returns
\* the value that factory made; the factory of a shadowed registration is
\* never called.
OverrideRule ==
    /\ \A k \in ErasedFrames :
          stack[k].descriptor = snapshot[LastRegistration(snapshot, stack[k].type)]
    /\ \A i \in ErasedCalls :
          Registered(snapshot, log[i].type) =>
             /\ log[i].outcome = "value"
             /\ log[i].reg = LastRegistration(snapshot, log[i].type)
             /\ log[i].value.ctype = snapshot[log[i].reg].factory.impl
    /\ \A r \in Shadowed : invoked[r] = 0

\* a type registered as Singleton and then as Transient has been resolved
OverrideWitness ==
    \E i \in ErasedCalls :
       /\ log[i].outcome = "value"
       /\ Cardinality(Registrations(snapshot, log[i].type)) >= 2
       /\ snapshot[1].typeInfo = log[i].type /\ snapshot[1].lifetime = Singleton
       /\ snapshot[log[i].reg].lifetime = Transient
       /\ snapshot[log[i].reg].factory # snapshot[1].factory

\* C2: for a type with no registration at build time the erased
\* GetService(type) returns the empty value, calls no factory and does not
\* throw; a provider built from an empty builder answers every call so.
AbsentWhenUnregistered ==
    /\ \A i \in ErasedCalls :
          /\ log[i].outcome # "raise"
          /\ ~Registered(snapshot, log[i].type) =>
                /\ log[i].outcome = "absent"
                /\ log[i].value = EmptyAny
                /\ log[i].reg = 0
    /\ \A k \in ErasedFrames : Registered(snapshot, stack[k].type)
    /\ \A r \in 1..MaxDescriptors :
          invoked[r] = Cardinality({k \in ErasedFrames : stack[k].descriptor.reg = r})
                       + Cardinality({i \in ErasedCalls : log[i].reg = r})
    /\ snapshot = <<>> => \A r \in 1..MaxDescriptors : invoked[r] = 0

\* an unregistered type was asked of a provider that holds other
\* registrations
AbsentWitness ==
    \E i \in ErasedCalls : log[i].outcome = "absent" /\ snapshot # <<>>
\* both types were asked of a provider built from an empty builder
AbsentEmptyBuilderWitness ==
    /\ snapshot = <<>> /\ Len(log) >= 2
    /\ \E i, j \in ErasedCalls : log[i].type # log[j].type

ExactlyOnce(descs, t) == Cardinality(Registrations(descs, t)) = 1
\* the registrations of the held provider that run caller-supplied factory f
UsersOf(f) == {r \in 1..Len(snapshot) : /\ snapshot[r].factory.kind = "custom"
                                         /\ snapshot[r].factory.fid = f}
\* the types the held provider knows by exactly one registration, of the
\* given lifetime
OnceAs(lifetime) ==
    {t \in ServiceTypes : /\ ExactlyOnce(snapshot, t)
                          /\ snapshot[LastRegistration(snapshot, t)].lifetime = lifetime}
\* the finished GetService(t) calls on the held provider that returned a value
Resolutions(t) == {i \in ErasedCalls : log[i].type = t /\ log[i].outcome = "value"}

\* C3: a caller-supplied factory registered as Singleton, for a type
\* registered exactly once, constructs at most once however often the type
\* is resolved.
SingletonFactoryRunsOnce ==
    \A t \in OnceAs(Singleton) :
       LET d == snapshot[LastRegistration(snapshot, t)]
       IN  (d.factory.kind = "custom" /\ UsersOf(d.factory.fid) = {d.reg})
              => counter[d.factory.fid] <= 1

\* C4: two resolutions of a type registered exactly once as Singleton, on the
\* same provider, return the same object.
SingletonSameInstance ==
    \A t \in OnceAs(Singleton) :
       \A i, j \in Resolutions(t) : log[i].value.id = log[j].value.id

\* a GetService(t) call returns in this step
Finishes(t) ==
    /\ Len(log') = Len(log) + 1
    /\ log'[Len(log')].kind = "erased"
    /\ log'[Len(log')].type = t

\* no two resolutions of a Transient type return the same object, and every
\* resolution, running or finished, has called the factory once
TransientDistinct ==
    \A t \in OnceAs(Transient) :
       /\ \A i, j \in Resolutions(t) : i # j => log[i].value.id # log[j].value.id
       /\ LET r == LastRegistration(snapshot, t)
          IN  invoked[r] = Cardinality({k \in ErasedFrames : stack[k].type = t})
                           + Cardinality(Resolutions(t))
\* a finishing resolution of a Transient type returns an object made in this
\* step, and the counting factory's counter grows by one exactly then
TransientCounts ==
    \A t \in OnceAs(Transient) :
       LET d == snapshot[LastRegistration(snapshot, t)]
       IN  /\ Finishes(t) =>
                /\ log'[Len(log')].outcome = "value"
                /\ log'[Len(log')].value.id >= nextId
                /\ log'[Len(log')].value.src = log'[Len(log')].value.id
           /\ (d.factory.kind = "custom" /\ UsersOf(d.factory.fid) = {d.reg}) =>
                counter'[d.factory.fid] =
                   counter[d.factory.fid] + (IF Finishes(t) THEN 1 ELSE 0)
\* C5: for a type registered exactly once as Transient every resolution calls
\* the factory exactly once and returns a new instance: a counting factory's
\* counter grows by one with every resolution (n after n resolutions), and no
\* two resolutions return the same object.
TransientFresh == []TransientDistinct /\ [][TransientCounts]_vars

\* a type registered once as Transient with a counting factory was resolved
\* twice, and the counter stands at two
TransientWitness ==
    \E t \in OnceAs(Transient) :
       LET d == snapshot[LastRegistration(snapshot, t)]
       IN  /\ d.factory.kind = "custom"
           /\ Cardinality(Resolutions(t)) = 2
           /\ counter[d.factory.fid] = 2

\* C6: GetService<T>() on a registered type whose winning factory makes a
\* value of another type than T throws; it returns no value.
TypedMismatchRaises ==
    \A i \in TypedCalls :
       LET t == log[i].type
       IN  /\ i >= 2 /\ log[i - 1].kind = "erased" /\ log[i - 1].type = t
           /\ (Registered(snapshot, t)
               /\ snapshot[LastRegistration(snapshot, t)].factory.impl # t) =>
                 /\ log[i - 1].outcome = "value"
                 /\ log[i - 1].value.ctype # t
                 /\ log[i].outcome = "raise"
                 /\ log[i].value = EmptyAny

\* GetService<T>() threw on a registered type whose factory had returned a
\* value
TypedMismatchWitness ==
    \E i \in TypedCalls :
       /\ log[i].outcome = "raise"
       /\ Registered(snapshot, log[i].type)
       /\ log[i - 1].outcome = "value"

\* C7: GetService<T>() on an unregistered type gives an empty result the
\* caller can test; it does not throw.
TypedAbsentNoRaise ==
    \A i \in TypedCalls :
       ~Registered(snapshot, log[i].type) => log[i].outcome # "raise"

\* the held provider maps exactly the types registered when it was built,
\* each to the winner of that moment, whatever the builder holds by now
SnapshotKept ==
    /\ SubSeq(descriptors, 1, Len(snapshot)) = snapshot
    /\ providers # <<>> =>
          \A t \in ServiceTypes :
             /\ t \in DOMAIN providers[1] <=> Registered(snapshot, t)
             /\ Registered(snapshot, t) =>
                   providers[1][t][1] = snapshot[LastRegistration(snapshot, t)]
\* an Add leaves the provider alone, a build leaves the builder alone, and
\* a finishing GetService answers from the registrations of the build
SnapshotStep ==
    /\ descriptors' # descriptors => providers' = providers
    /\ providers' # providers => descriptors' = descriptors /\ chain' = chain
    /\ \A t \in ServiceTypes :
          Finishes(t) =>
             /\ log'[Len(log')].outcome = "absent" <=> ~Registered(snapshot, t)
             /\ Registered(snapshot, t) =>
                   log'[Len(log')].reg = LastRegistration(snapshot, t)
\* C8: build snapshot. A provider observes exactly the registrations present
\* in the builder when it was built: an Add after the build changes nothing
\* of the built provider, so a type first registered afterwards stays absent
\* and a type registered again afterwards keeps its old winner; and the
\* build leaves the builder's list as it was.
BuildSnapshot == []SnapshotKept /\ [][SnapshotStep]_vars

\* GetService<T>() got the empty value for a type that the builder has
\* registered since the build
SnapshotWitness ==
    /\ Running("typed", "cast")
    /\ Top.service = EmptyAny
    /\ Registered(descriptors, Top.type)
    /\ ~Registered(snapshot, Top.type)
\* the factory of the old winner runs for a type registered again since the
\* build
SnapshotOldWinnerRuns ==
    /\ Running("erased", "factory")
    /\ Top.descriptor.reg < LastRegistration(descriptors, Top.type)
    /\ Top.descriptor.reg = LastRegistration(snapshot, Top.type)

\* the finished GetService(t) calls that a factory made
InnerResolutions(t) == {i \in Resolutions(t) : log[i].caller # "none"}

\* C9: re-entrant resolution. GetService(B) called by the factory of A on
\* the provider it was handed returns the value of B's winning registration
\* and follows B's lifetime: one and the same B for every resolution of A
\* when B is a Singleton, a new B each time when B is Transient.
ReentrantFollowsLifetime ==
    /\ \A k \in ErasedFrames :
          (k > 1 /\ stack[k - 1].kind = "erased") =>
             stack[k].descriptor = snapshot[LastRegistration(snapshot, stack[k].type)]
    /\ \A t \in ServiceTypes :
          Registered(snapshot, t) =>
             LET b == snapshot[LastRegistration(snapshot, t)]
             IN  \A i, j \in InnerResolutions(t) :
                    /\ log[i].reg = b.reg
                    /\ (b.lifetime = Singleton) => log[i].value.id = log[j].value.id
                    /\ (b.lifetime = Transient /\ i # j) =>
                          log[i].value.id # log[j].value.id

\* Add with a registration of type t
AddOfType(t) ==
    /\ BuilderIdle
    /\ \E f \in CustomFactories, l \in ServiceLifetime :
          Add(ServiceDescriptor(t, CustomFactory(f), l, Len(descriptors) + 1))
\* no Add is refused, whatever is registered already
AddAccepted ==
    BuilderIdle =>
       /\ \A t \in ServiceTypes : ENABLED AddOfType(t)
       /\ ENABLED AddSingletonDefault /\ ENABLED AddSingleton
       /\ ENABLED AddTransientDefault /\ ENABLED AddTransient
\* a step that changes the builder's list appends one registration to it,
\* returns the builder and changes nothing else
AddStep ==
    descriptors' # descriptors =>
       /\ Len(descriptors') = Len(descriptors) + 1
       /\ SubSeq(descriptors', 1, Len(descriptors)) = descriptors
       /\ chain' = "this"
       /\ UNCHANGED <<providers, snapshot, resolveVars>>
       /\ LET d == descriptors'[Len(descriptors')]
          IN  /\ d.factory.kind = "defaultSingleton" =>
                    d.lifetime = Singleton /\ d.typeInfo = d.factory.svc
              /\ d.factory.kind = "defaultTransient" =>
                    d.lifetime = Transient /\ d.typeInfo = d.factory.svc
\* C10: Add always succeeds, returns the builder and appends exactly one
\* registration: the list grows by one, what was in it stays in place, and a
\* registration of a registered type is taken as one more entry. The
\* convenience methods do the same with their lifetime tag.
AddAppends == []AddAccepted /\ [][AddStep]_vars

\* the builder holds two different registrations of one type
AddWitness ==
    /\ Len(descriptors) = 2
    /\ chain = "this"
    /\ descriptors[1].typeInfo = descriptors[2].typeInfo
    /\ descriptors[1].factory # descriptors[2].factory
    /\ descriptors[1].lifetime = Singleton /\ descriptors[2].lifetime = Transient

\* the sum of the bucket lengths of a registry
RECURSIVE BucketTotal(_, _)
BucketTotal(services, keys) ==
    IF keys = {} THEN 0
    ELSE LET t == CHOOSE k \in keys : TRUE
         IN  Len(services[t]) + BucketTotal(services, keys \ {t})

\* C11: registry shape. In every built provider the keys of the registry are
\* the types registered at build time, every bucket is non-empty and holds
\* exactly the registrations of its type, most recently registered first, and
\* no registration is lost or duplicated.
RegistryShape ==
    providers # <<>> =>
       LET services == providers[1]
       IN  /\ DOMAIN services = {snapshot[i].typeInfo : i \in 1..Len(snapshot)}
           /\ \A t \in DOMAIN services :
                 LET bucket == services[t]
                 IN  /\ Len(bucket) >= 1
                     /\ Len(bucket) = Cardinality(Registrations(snapshot, t))
                     /\ {bucket[k].reg : k \in 1..Len(bucket)} = Registrations(snapshot, t)
                     /\ \A k \in 1..Len(bucket) : bucket[k] = snapshot[bucket[k].reg]
                     /\ \A k, m \in 1..Len(bucket) :
                           k < m => bucket[k].reg > bucket[m].reg
           /\ BucketTotal(services, DOMAIN services) = Len(snapshot)

\* a provider holds a bucket of two different registrations
RegistryShapeWitness ==
    /\ providers # <<>>
    /\ \E t \in DOMAIN providers[1] :
          /\ Len(providers[1][t]) = 2
          /\ providers[1][t][1].factory # providers[1][t][2].factory

\* a step of a GetService call, the outer call or one a factory makes
ResolutionStep ==
    \/ stack # <<>>
    \/ stack' # <<>>
    \/ calls' # calls
    \/ Len(log') > Len(log)

\* the registration GetService selects for type t in a registry
Winner(services, t) ==
    IF t \in DOMAIN services THEN services[t][1].reg ELSE 0

\* C12: a built provider is immutable. No step of a GetService call, type-erased
\* or typed, for a registered or an unregistered type, from the client or from
\* inside a factory, changes the registry or the winning registration of any
\* type, and a provider once built is never taken back to the builder phase.
ResolverImmutableStep ==
    /\ ResolutionStep =>
          /\ providers' = providers
          /\ snapshot' = snapshot
          /\ \A t \in TypeIds :
                Winner(providers'[1], t) = Winner(providers[1], t)
    /\ providers # <<>> => providers' # <<>>
    /\ providers' # providers => /\ stack = <<>>
                                 /\ providers' = <<NewServiceProvider(descriptors)>>
ResolverImmutable == [][ResolverImmutableStep]_vars

\* the provider has answered a typed call for an unregistered type and a call a
\* factory made
ResolverImmutableWitness ==
    /\ providers # <<>>
    /\ \E i \in DOMAIN log : /\ log[i].kind = "typed"
                             /\ log[i].type \notin DOMAIN providers[1]
    /\ \E i \in DOMAIN log : log[i].kind = "erased" /\ log[i].caller # "none"

\* the step on which the lambda of AddSingleton<key[1], key[2]>() returns
LambdaReturns(key) ==
    /\ stack # <<>>
    /\ Top.kind = "erased"
    /\ Top.pc = "factory"
    /\ Top.descriptor.factory = DefaultSingletonFactory(key[1], key[2])
    /\ Finishes(key[1])

\* the finished calls on the held provider that the lambda of
\* AddSingleton<key[1], key[2]>() answered
LambdaCalls(key) ==
    {i \in Resolutions(key[1]) :
        snapshot[log[i].reg].factory = DefaultSingletonFactory(key[1], key[2])}

\* the implementation of a factory-less Singleton is constructed only by a
\* run of its lambda, only when it has not been constructed before, and a run
\* of the lambda leaves it constructed
LazySingletonStep ==
    \A key \in DefaultPairs :
       /\ statics'[key] # statics[key] =>
             /\ LambdaReturns(key)
             /\ statics[key] = EmptyAny
             /\ statics'[key] = Object(nextId, key[2])
       /\ LambdaReturns(key) => statics'[key] # EmptyAny

\* the calls the lambda answered on the held provider found the
\* implementation constructed
LazySingletonState ==
    \A key \in DefaultPairs : LambdaCalls(key) # {} => statics[key] # EmptyAny

\* C13: lazy default Singleton. AddSingleton<TService, TImplementation>()
\* constructs nothing at registration and nothing at build; the implementation
\* is constructed during the first resolution and never again: 0 constructions
\* before the first resolution, exactly 1 after any number of them.
LazySingleton == []LazySingletonState /\ [][LazySingletonStep]_vars

\* a factory-less Singleton has been resolved twice on the held provider
LazySingletonWitness ==
    \E key \in DefaultPairs :
       /\ Cardinality(LambdaCalls(key)) = 2
       /\ statics[key] = Object(statics[key].id, key[2])
       /\ \A i \in LambdaCalls(key) : log[i].value.src = statics[key].id

\* the type the winning factory of t resolves on the held provider, "none"
\* when t is unregistered or its factory resolves nothing
DepOf(t) ==
    IF t \in ServiceTypes /\ Registered(snapshot, t)
    THEN snapshot[LastRegistration(snapshot, t)].factory.dep
    ELSE "none"

\* the type reached from t by following n dependencies
RECURSIVE DepN(_, _)
DepN(t, n) == IF n = 0 THEN t ELSE DepN(DepOf(t), n - 1)

\* the winning factory of t resolves t, directly or through other factories
Cyclic(t) == \E n \in 1..Cardinality(ServiceTypes) : DepN(t, n) = t

\* the frames of GetService calls for types that resolve themselves
CyclicFrames == {k \in ErasedFrames : Cyclic(stack[k].type)}

\* no call for a type that resolves itself has finished, with a value, an
\* empty result or a report of the cycle; a running one can only nest deeper
NoCycleReport ==
    /\ \A i \in DOMAIN log :
          /\ ~Cyclic(log[i].type)
          /\ log[i].outcome \in {"value", NotFoundOutcome, "raise"}
    /\ CyclicFrames # {} =>
          /\ Cyclic(Top.type)
          /\ ~ENABLED CustomFactoryConstruct
          /\ ~ENABLED AnyCast
          /\ Len(stack) < MaxDepth => ENABLED CustomFactoryResolve

\* every step of a call for a type that resolves itself nests one call deeper
CycleNests ==
    CyclicFrames # {} =>
       /\ Len(stack') = Len(stack) + 1
       /\ SubSeq(stack', 1, Len(stack)) =
             [stack EXCEPT ![Len(stack)] = [Top EXCEPT !.pc = "wait"]]
       /\ Cyclic(stack'[Len(stack')].type)
       /\ log' = log

\* C14: no cycle detection. When the winning factory of a type resolves that
\* type, directly or through a chain of other factories, GetService for the
\* type never returns a value and never reports a cyclic dependency: each step
\* nests one call deeper, as deep as the nesting bound lets the run go.
NoCycleDetection == []NoCycleReport /\ [][CycleNests]_vars

\* a cycle through two factories has nested to the depth bound
NoCycleDetectionWitness ==
    /\ Len(stack) = MaxDepth
    /\ \A k \in DOMAIN stack : k \in CyclicFrames
    /\ \E k \in DOMAIN stack : k > 1 /\ stack[k].type # stack[k - 1].type
    /\ stack[1].type = stack[MaxDepth].type \/ stack[1].type = stack[MaxDepth - 1].type

\* no winning factory of the held provider resolves its own type
Acyclic == \A t \in ServiceTypes : ~Cyclic(t)

\* the number of factories on the dependency chain that starts at t
RECURSIVE ChainLength(_, _)
ChainLength(t, fuel) ==
    IF fuel = 0 \/ t \notin ServiceTypes \/ ~Registered(snapshot, t) THEN 0
    ELSE 1 + ChainLength(DepOf(t), fuel - 1)

\* on an acyclic graph the nested in-progress resolutions are no more than the
\* factories on the chain of the outermost one, and the builder operations
\* are ready to run whenever no call is in progress
DepthBounded ==
    /\ Acyclic /\ ErasedFrames # {} =>
          LET outer == CHOOSE k \in ErasedFrames : \A j \in ErasedFrames : k <= j
          IN  Cardinality(ErasedFrames) <=
                 ChainLength(stack[outer].type, Cardinality(ServiceTypes))
    /\ stack = <<>> => ENABLED BuildServiceProvider
    /\ stack = <<>> /\ Len(descriptors) < MaxDescriptors =>
          ENABLED AddTransient

\* C15: termination on acyclic graphs. When no winning factory resolves its
\* own type, every GetService call runs to completion and the nested
\* in-progress resolutions never exceed the longest dependency chain; Add and
\* BuildServiceProvider always run to completion.
AcyclicTerminates ==
    /\ []DepthBounded
    /\ (stack # <<>> /\ Acyclic) ~> (stack = <<>>)

\* a typed call for a type whose factory resolves another registered type has
\* completed
AcyclicTerminatesWitness ==
    /\ Acyclic
    /\ stack = <<>>
    /\ \E i, j, k \in DOMAIN log :
          /\ i < j /\ j < k
          /\ log[i].kind = "erased" /\ log[i].caller # "none" /\ log[i].outcome = "value"
          /\ log[j].kind = "erased" /\ log[j].type = log[i].caller
          /\ log[j].outcome = "value"
          /\ log[k].kind = "typed" /\ log[k].type = log[j].type

\* an instance once constructed stays the instance of its pair over every
\* later step, builds and registrations included, and every run of the lambda
\* hands out a copy of it
OneInstanceStep ==
    \A key \in DefaultPairs :
       /\ statics[key] # EmptyAny => statics'[key] = statics[key]
       /\ LambdaReturns(key) =>
             LET value == log'[Len(log')].value
             IN  /\ value.src = statics'[key].id
                 /\ value.ctype = key[2]

\* whatever registration answered, the calls on the held provider observed
\* the instance of the pair
OneInstanceState ==
    \A key \in DefaultPairs :
       \A i \in LambdaCalls(key) : log[i].value.src = statics[key].id

ImplementedByOther ==
    {t \in ServiceTypes :
        /\ Registered(snapshot, t)
        /\ LET f == snapshot[LastRegistration(snapshot, t)].factory
           IN  /\ f.kind \in {"defaultSingleton", "defaultTransient"}
               /\ f.impl # f.svc}

\* C17: a service registered by the factory-less AddSingleton<TService,
\* TImplementation>() or AddTransient<TService, TImplementation>() with
\* TImplementation other than TService is resolved by GetService<TService>():
\* the typed accessor returns a value and does not raise.
TypedResolvesImplementation ==
    \A i \in TypedCalls :
       log[i].type \in ImplementedByOther => log[i].outcome = "value"

\* the pairs of worker threads that both made the first resolution of one
\* factory-less Singleton, each call begun before the static was constructed,
\* and both have their result
RacedFirstResolution ==
    {pair \in Threads \X Threads :
        /\ pair[1] # pair[2]
        /\ \A k \in 1..2 : /\ threads[pair[k]].pc = "done"
                           /\ threads[pair[k]].first
                           /\ threads[pair[k]].descriptor.lifetime = Singleton
        /\ threads[pair[1]].type = threads[pair[2]].type}

\* the worker threads that constructed the static of the pair
Builders(key) ==
    {th \in Threads : /\ threads[th].built
                      /\ threads[th].descriptor.factory.kind = "defaultSingleton"
                      /\ StaticOf(th) = key}

StaticBuiltOnce ==
    \A key \in DefaultPairs :
       /\ Cardinality(Builders(key)) <= 1
       /\ \A th \in Threads :
             /\ threads[th].pc = "done"
             /\ threads[th].descriptor.factory.kind = "defaultSingleton"
             /\ StaticOf(th) = key
             => threads[th].result.src = statics[key].id

Next ==
    \/ AddDescriptor
    \/ AddSingletonDefault
    \/ AddSingleton
    \/ AddTransientDefault
    \/ AddTransient
    \/ BuildServiceProvider
    \/ CallGetService
    \/ CallGetServiceT
    \/ DefaultSingletonLambda
    \/ DefaultTransientLambda
    \/ CustomFactoryResolve
    \/ CustomFactoryConstruct
    \/ AnyCast

Spec == Init /\ [][Next]_vars

\* a call in progress keeps running: GetService and the factories are
\* ordinary synchronous calls on the client's thread
RunningStep ==
    \/ CustomFactoryResolve
    \/ CustomFactoryConstruct
    \/ AnyCast

\* the client programs that register caller-supplied factories with
\* dependencies, build once and resolve
NextGraph ==
    \/ AddDependent
    \/ BuildOnce
    \/ CallGetService
    \/ CallGetServiceT
    \/ CustomFactoryResolve
    \/ CustomFactoryConstruct
    \/ AnyCast

SpecGraph == Init /\ [][NextGraph]_vars /\ WF_vars(RunningStep)

\* the multi-threaded client programs: factory-less registrations, one build,
\* then each worker thread resolves once on the shared provider
NextThreads ==
    \/ AddSingletonShared
    \/ AddTransientShared
    \/ BuildOnce
    \/ \E th \in Threads : ThreadGetService(th)
    \/ \E th \in Threads : ThreadEnterStatic(th)
    \/ \E th \in Threads : ThreadInitStatic(th)
    \/ \E th \in Threads : ThreadReturnCopy(th)
    \/ \E th \in Threads : ThreadTransient(th)

SpecThreads == Init /\ [][NextThreads]_vars
====
